---- MODULE Spec2Model ----
(***************************************************************************)
(* The session reward engine of src/hooks/useMiner.ts: the statistics and  *)
(* history records of the useMiner hook, their per-account persistence in  *)
(* localStorage, the passive ticker, the reward updaters and the           *)
(* withdrawal orchestrator.                                                *)
(*                                                                         *)
(* Amounts are integers in micro-SOL (0.000012 SOL = 12); uptime is in     *)
(* half seconds (1.5 s = 3).  One action is one event handler together     *)
(* with the React render and the effects that its state updates cause.     *)
(* The only render that is a step of its own is the one that applies the   *)
(* setStats/setHistory calls queued by the account load effect: until it   *)
(* runs, `stats` and `history` still hold the records of the render that   *)
(* changed the account, and updater functions queued by timers, the game   *)
(* loop or a resolving payout call are applied on top of the queued load.  *)
(***************************************************************************)
EXTENDS Integers, Sequences, FiniteSets, TLC

VARIABLES
    payoutAddress,      \* initialConfig.payoutAddress ("" = no account selected)
    loadedAddressRef,   \* loadedAddressRef.current (Null = null)
    stats,              \* the stats state of the last committed render
    history,            \* the history state of the last committed render
    queued,             \* setStats/setHistory of the load effect, not yet rendered
    localStorage,       \* key -> <<>> (getItem gives null) or <<value>>
    isCaptchaMining,
    isTabMining,
    ticker,             \* whether the setInterval of the ticker effect is live
    solveTimestamps,    \* number of entries of solveTimestamps.current
    reqs,               \* the requestWithdrawal calls that passed the preconditions
    fetchLog,           \* bodies of the POST /api/withdraw requests issued
    op,                 \* the last operation and, for requestWithdrawal, its result
    memOwner,           \* history variable: account the in-memory records were loaded for
    lsOwner,            \* history variable: memOwner of the record last written under a key
    ledger,             \* history variable: balance at the last load/reset, rewards
                        \* since, and everything earned by the records in memory
    events,             \* history variable: number of reward events so far
    status,             \* the memoised MinerStatus of the last render
    cooldownRef,        \* cooldownRef.current
    verifying,          \* verifyCaptcha calls inside their 400 ms delay, oldest first
    cooldownTimers,     \* pending 3000 ms timers that clear the cooldown, oldest first
    verifyCalls,        \* history variable: number of verifyCaptcha calls so far
    gameState,          \* CaptchaChallenge: 'IDLE', 'PLAYING' or 'GAME_OVER'
    scoreRef,           \* CaptchaChallenge: scoreRef.current (50 per metre)
    lastMilestoneRef,   \* CaptchaChallenge: lastMilestoneRef.current
    sessionReward,      \* CaptchaChallenge: the sessionReward state (micro-SOL)
    fired               \* history variable: milestones emitted since the last initGame

\* The verification gate
gate == <<cooldownRef, verifying, cooldownTimers, verifyCalls>>

\* The game of CaptchaChallenge, as far as it produces milestones
game == <<gameState, scoreRef, lastMilestoneRef, sessionReward, fired>>

vars == <<payoutAddress, loadedAddressRef, stats, history, queued, localStorage,
          isCaptchaMining, isTabMining, ticker, solveTimestamps, reqs, fetchLog,
          op, memOwner, lsOwner, ledger, events, status, gate, game>>

(***************************************************************************)
(* Bounds of the model.                                                    *)
(***************************************************************************)
\* Spec: reward events plus requestWithdrawal calls that pass the preconditions
MaxSteps == 2
\* RewardSpec: reward events
MaxFold == 3
\* GateSpec: verifyCaptcha calls
MaxVerify == 3
\* GameSpec: the score of a game (700 m)
MaxScore == 35000

(***************************************************************************)
(* Program constants.                                                      *)
(***************************************************************************)
TAB_MINING_REWARD == 12
TickUptime == 3
TickHashes == 15
SolveHashes == 100
MIN_WITHDRAWAL == 30000
MilestoneBump == 50

Null == "null"
Accounts == {"A", "B"}
Difficulties == {"EASY", "MEDIUM", "HARD", "OTHER"}
Distances == {100, 550, 600, 700}
RedeemAmounts == {30000}
\* score added by a run of frames: 50 m, 100 m
FrameSteps == {2500, 5000}
HashJitter == {0, 49}

\* Captcha texts, as sequences of characters
Solutions == {<<"a", "B">>, <<"a", "c">>}
Expecteds == {<<"A", "b">>}

RateLimitError == "Rate limit exceeded (3s)"
InvalidError == "Invalid captcha"
ThresholdError == "Minimum withdrawal is 0.03 SOL"
ConfigError == "No payout address configured"
NetworkError == "Network error. Please try again."
FallbackError == "Withdrawal failed"
ServiceText == "insufficient treasury"

\* pendingXMR = newSOL / 1.45, kept in micro-units (the quotient is cut, as the
\* double is rounded)
XMROf(sol) == (sol * 100) \div 145

ZeroStats ==
    [hashRate |-> 0, totalHashes |-> 0, acceptedShares |-> 0,
     pendingXMR |-> 0, pendingSOL |-> 0, uptime |-> 0, solves |-> 0]

StatsKey(a) == <<"solbridge_stats", a>>
HistoryKey(a) == <<"solbridge_history", a>>
StorageKeys == {StatsKey(a) : a \in Accounts \cup {""}}
                 \cup {HistoryKey(a) : a \in Accounts \cup {""}}

\* JSON.stringify / JSON.parse of a record whose fields are all defined
Stringify(v) == <<"json", v>>
Parse(s) == s[2]
GetItem(ls, key) == ls[key]
SetItem(ls, key, s) == [ls EXCEPT ![key] = <<s>>]

(***************************************************************************)
(* The account load effect: what it hands to setStats and setHistory.      *)
(***************************************************************************)
\* Mutant: on a miss the record under the un-suffixed key is taken
LoadStatsFallback(ls, a) ==
    LET saved == IF GetItem(ls, StatsKey(a)) # <<>> THEN GetItem(ls, StatsKey(a))
                 ELSE GetItem(ls, StatsKey(""))
    IN  IF saved # <<>>
        THEN [Parse(saved[1]) EXCEPT !.hashRate = 0, !.uptime = 0]
        ELSE ZeroStats

LoadStats(ls, a) ==
    LET saved == GetItem(ls, StatsKey(a))
    IN  IF saved # <<>>
        THEN [Parse(saved[1]) EXCEPT !.hashRate = 0, !.uptime = 0]
        ELSE ZeroStats

\* Mutant: the stored history is not read
LoadHistoryNone(ls, a) == <<>>

LoadHistory(ls, a) ==
    LET saved == GetItem(ls, HistoryKey(a))
    IN  IF saved # <<>> THEN Parse(saved[1]) ELSE <<>>

\* loadedAddressRef.current after the load effect has run for address a
LoadEffectRef(a, ref) == IF a = "" THEN ref ELSE a

(***************************************************************************)
(* The two save effects.  `ref` is loadedAddressRef.current at the time    *)
(* the effect runs, st and h the records of the render it belongs to.      *)
(***************************************************************************)
\* Mutant: the effects do not return when no account is selected
SaveGuardAnyAccount(a, ref) == a = "" \/ ref = a

SaveGuard(a, ref) == a # "" /\ ref = a

\* Mutant: the statistics are never written back
SaveStatsNever(ls, a, ref, st) == ls

SaveStatsEffect(ls, a, ref, st) ==
    IF SaveGuard(a, ref) THEN SetItem(ls, StatsKey(a), Stringify(st)) ELSE ls

SaveHistoryEffect(ls, a, ref, h) ==
    IF SaveGuard(a, ref) THEN SetItem(ls, HistoryKey(a), Stringify(h)) ELSE ls

(***************************************************************************)
(* The updater functions handed to setStats.                               *)
(***************************************************************************)
\* Mutant: the tick sets the hash-rate whatever it was
TickUpdateOverwrite(prev, jitter) ==
    LET newSOL == prev.pendingSOL + TAB_MINING_REWARD
    IN  [prev EXCEPT !.pendingSOL = newSOL,
                     !.pendingXMR = XMROf(newSOL),
                     !.uptime = prev.uptime + TickUptime,
                     !.hashRate = 450 + jitter,
                     !.totalHashes = prev.totalHashes + TickHashes]

TickUpdate(prev, jitter) ==
    LET newSOL == prev.pendingSOL + TAB_MINING_REWARD
    IN  [prev EXCEPT !.pendingSOL = newSOL,
                     !.pendingXMR = XMROf(newSOL),
                     !.uptime = prev.uptime + TickUptime,
                     !.hashRate = IF prev.hashRate > 400 THEN prev.hashRate
                                  ELSE 450 + jitter,
                     !.totalHashes = prev.totalHashes + TickHashes]

\* Mutant: a tier the table does not know earns nothing
SolveRewardNoFallback(difficulty) ==
    CASE difficulty = "EASY" -> 2000
      [] difficulty = "MEDIUM" -> 5000
      [] difficulty = "HARD" -> 12000
      [] OTHER -> 0

SolveReward(difficulty) ==
    CASE difficulty = "EASY" -> 2000
      [] difficulty = "MEDIUM" -> 5000
      [] difficulty = "HARD" -> 12000
      [] OTHER -> 5000

\* n is solveTimestamps.current.length after the push and the filter
SolveHashRate(n, tabMining) == n * 100 + (IF tabMining THEN 450 ELSE 0)

\* Mutant: the reward is added to the balance captured when the callback was made
SolveUpdateStale(prev, difficulty, n, tabMining) ==
    LET newSOL == ZeroStats.pendingSOL + SolveReward(difficulty)
    IN  [prev EXCEPT !.solves = prev.solves + 1,
                     !.acceptedShares = prev.acceptedShares + 1,
                     !.totalHashes = prev.totalHashes + SolveHashes,
                     !.pendingSOL = newSOL,
                     !.pendingXMR = XMROf(newSOL),
                     !.hashRate = SolveHashRate(n, tabMining)]

SolveUpdate(prev, difficulty, n, tabMining) ==
    LET newSOL == prev.pendingSOL + SolveReward(difficulty)
    IN  [prev EXCEPT !.solves = prev.solves + 1,
                     !.acceptedShares = prev.acceptedShares + 1,
                     !.totalHashes = prev.totalHashes + SolveHashes,
                     !.pendingSOL = newSOL,
                     !.pendingXMR = XMROf(newSOL),
                     !.hashRate = SolveHashRate(n, tabMining)]

MilestoneReward(distance) ==
    IF distance = 100 THEN 4000
    ELSE IF distance = 200 THEN 5600
    ELSE IF distance = 300 THEN 7100
    ELSE IF distance = 400 THEN 8100
    ELSE IF distance = 500 THEN 12000
    ELSE IF distance > 500 /\ distance % 100 = 0
         THEN 12000 + ((distance - 500) \div 100) * 5600
    ELSE 0

\* The rewards table shown to the player (How-to-Play) and added to the session
\* reward display of the game
DocumentedReward(distance) ==
    IF distance = 100 THEN 810
    ELSE IF distance = 200 THEN 1100
    ELSE IF distance = 300 THEN 1200
    ELSE IF distance = 400 THEN 1600
    ELSE IF distance = 500 THEN 3200
    ELSE IF distance > 500 /\ distance % 100 = 0 THEN 1600
    ELSE 0

MilestoneUpdate(prev, reward) ==
    LET newSOL == prev.pendingSOL + reward
    IN  [prev EXCEPT !.pendingSOL = newSOL,
                     !.pendingXMR = XMROf(newSOL),
                     !.hashRate = prev.hashRate + MilestoneBump]

\* Mutant: the secondary balance is not recomputed
AddBalanceUpdateNoXMR(prev, amount) ==
    [prev EXCEPT !.pendingSOL = prev.pendingSOL + amount]

AddBalanceUpdate(prev, amount) ==
    LET newSOL == prev.pendingSOL + amount
    IN  [prev EXCEPT !.pendingSOL = newSOL, !.pendingXMR = XMROf(newSOL)]

ResetBalance(prev) == [prev EXCEPT !.pendingSOL = 0, !.pendingXMR = 0]

IdleHashRate(prev) == [prev EXCEPT !.hashRate = 0]

(***************************************************************************)
(* requestWithdrawal: the record it creates and the patches it applies.    *)
(***************************************************************************)
\* Mutant: the record is created as if the payout had already gone through
PendingPayoutEager(id, amount, address) ==
    [id |-> id, amountSOL |-> amount, status |-> "completed", txHash |-> "",
     address |-> address]

PendingPayout(id, amount, address) ==
    [id |-> id, amountSOL |-> amount, status |-> "pending", txHash |-> "",
     address |-> address]

\* Mutant: the failed patch is applied to every record of the history
PatchFailedAll(h, id) ==
    [i \in 1..Len(h) |-> [h[i] EXCEPT !.status = "failed"]]

PatchFailed(h, id) ==
    [i \in 1..Len(h) |->
        IF h[i].id = id THEN [h[i] EXCEPT !.status = "failed"] ELSE h[i]]

PatchCompleted(h, id, txHash) ==
    [i \in 1..Len(h) |->
        IF h[i].id = id
        THEN [h[i] EXCEPT !.status = "completed", !.txHash = txHash]
        ELSE h[i]]

\* The answers of the payout service: response.ok, data.success, data.txHash,
\* data.error ("" = absent), or a fetch / response.json() that throws.
Outcomes == {"ok", "refused", "httpError", "throws"}
\* ... and a 200 response whose body is not JSON: response.json() throws
AllOutcomes == Outcomes \cup {"badJson"}
TxHashOf(id) == IF id = 1 THEN "tx1" ELSE IF id = 2 THEN "tx2" ELSE "tx3"
Response(outcome, id) ==
    CASE outcome = "ok" ->
            [throws |-> FALSE, ok |-> TRUE, success |-> TRUE,
             txHash |-> TxHashOf(id), error |-> ""]
      [] outcome = "refused" ->
            [throws |-> FALSE, ok |-> TRUE, success |-> FALSE,
             txHash |-> "", error |-> ServiceText]
      [] outcome = "httpError" ->
            [throws |-> FALSE, ok |-> FALSE, success |-> FALSE,
             txHash |-> "", error |-> ""]
      [] outcome = "badJson" ->
            [throws |-> TRUE, ok |-> TRUE, success |-> FALSE,
             txHash |-> "", error |-> ""]
      [] OTHER ->
            [throws |-> TRUE, ok |-> FALSE, success |-> FALSE,
             txHash |-> "", error |-> ""]

\* Mutant: the awaits are outside the try block
Uncaught(resp) == FALSE

\* The try block encloses fetch and response.json(): what they throw is caught
Caught(resp) == resp.throws

\* How the promise of requestWithdrawal settles
Settled(resp) ==
    IF resp.throws /\ ~Caught(resp) THEN "withdraw.threw" ELSE "withdraw.resolved"

\* What the call patches and returns once the payout call has been answered
Succeeded(resp) == ~resp.throws /\ resp.ok /\ resp.success

\* Mutant: a payout that did not succeed is posted once more
ResentOnFailure(resp, body) == IF Succeeded(resp) THEN <<>> ELSE <<body>>

\* The payout requests the branches after the answer send: none
Resent(resp, body) == <<>>

ResolvedHistory(h, id, resp) ==
    IF Succeeded(resp) THEN PatchCompleted(h, id, resp.txHash)
    ELSE PatchFailed(h, id)

\* Mutant: the balance is not reset after a successful payout
ResolvedStatsKeep(st, resp) == st

\* Mutant: the balance is reset whatever the answer
ResolvedStatsAlways(st, resp) == ResetBalance(st)

ResolvedStats(st, resp) == IF Succeeded(resp) THEN ResetBalance(st) ELSE st

\* Mutant: every payout that did not succeed returns the network-error text
ResolvedErrorGeneric(resp) == IF Succeeded(resp) THEN "" ELSE NetworkError

ResolvedError(resp) ==
    IF resp.throws THEN NetworkError
    ELSE IF Succeeded(resp) THEN ""
    ELSE IF resp.error # "" THEN resp.error ELSE FallbackError

(***************************************************************************)
(* The mining status (useMemo over the two activity flags).                *)
(***************************************************************************)
\* Mutant: the active flag alone decides, the passive flag is not looked at
StatusActiveFirst(captcha, tab) ==
    IF captcha THEN "MINING"
    ELSE IF tab THEN "TAB_MINING"
    ELSE "IDLE"

Status(captcha, tab) ==
    IF captcha /\ tab THEN "DUAL_MINING"
    ELSE IF captcha THEN "MINING"
    ELSE IF tab THEN "TAB_MINING"
    ELSE "IDLE"

(***************************************************************************)
(* verifyCaptcha: the cooldown check, the comparison and the cooldown.     *)
(***************************************************************************)
\* String.prototype.toLowerCase on the letters the captcha texts use
LowerChar(c) ==
    CASE c = "A" -> "a"
      [] c = "B" -> "b"
      [] c = "C" -> "c"
      [] OTHER -> c

ToLowerCase(s) == [i \in 1..Len(s) |-> LowerChar(s[i])]

Matches(solution, expected) == ToLowerCase(solution) = ToLowerCase(expected)

\* Mutant: the cooldown flag is not looked at
RateLimitedNever(cooldown) == FALSE

\* The check made when verifyCaptcha is called
RateLimited(cooldown) == cooldown

\* Mutant: every processed verification engages the cooldown
CooldownAfterAny(matched, cooldown) == TRUE

\* cooldownRef.current after the comparison
CooldownAfter(matched, cooldown) == IF matched THEN TRUE ELSE cooldown

\* Mutant: the timer leaves the flag set
CooldownStuck == TRUE

\* The value the 3000 ms timer writes
CooldownCleared == FALSE

\* The amounts of the completed records of a history, added up
RECURSIVE SumCompleted(_)
SumCompleted(h) ==
    IF h = <<>> THEN 0
    ELSE (IF Head(h).status = "completed" THEN Head(h).amountSOL ELSE 0)
         + SumCompleted(Tail(h))

(***************************************************************************)
(* State.                                                                  *)
(***************************************************************************)
NoQueue == [pending |-> FALSE, address |-> "", stats |-> ZeroStats, history |-> <<>>]

\* The records an updater function queued now is applied to
CurStats == IF queued.pending THEN queued.stats ELSE stats
CurHistory == IF queued.pending THEN queued.history ELSE history

\* op: the operation, the request it belongs to, the answer of the payout service
\* it handles (arg), and what requestWithdrawal returned
OpOf(name) ==
    [name |-> name, id |-> 0, arg |-> "", success |-> FALSE, error |-> "", txHash |-> ""]

\* A requestWithdrawal call is between its setHistory and its fetch
Busy == \E i \in 1..Len(reqs) : reqs[i].state = "created"

\* What an earlier session of account A left in storage: 2500 passive ticks,
\* a balance of exactly 0.03 SOL
PriorStats ==
    [hashRate |-> 450, totalHashes |-> 2500 * TickHashes, acceptedShares |-> 0,
     pendingXMR |-> XMROf(2500 * TAB_MINING_REWARD),
     pendingSOL |-> 2500 * TAB_MINING_REWARD, uptime |-> 2500 * TickUptime,
     solves |-> 0]

EmptyStorage == [k \in StorageKeys |-> <<>>]
PriorStorage ==
    SetItem(SetItem(EmptyStorage, StatsKey("A"), Stringify(PriorStats)),
            HistoryKey("A"), Stringify(<<>>))

\* The same, with a statistics record under the un-suffixed key: 500 passive ticks
LegacyStats ==
    [hashRate |-> 450, totalHashes |-> 500 * TickHashes, acceptedShares |-> 0,
     pendingXMR |-> XMROf(500 * TAB_MINING_REWARD),
     pendingSOL |-> 500 * TAB_MINING_REWARD, uptime |-> 500 * TickUptime,
     solves |-> 0]

LegacyStorage == SetItem(PriorStorage, StatsKey(""), Stringify(LegacyStats))

\* The hook is mounted with no account selected: the useState initialisers read
\* the un-suffixed keys
Init ==
    /\ payoutAddress = ""
    /\ loadedAddressRef = Null
    /\ localStorage \in {PriorStorage, LegacyStorage}
    /\ stats = LoadStats(localStorage, "")
    /\ history = LoadHistory(localStorage, "")
    /\ queued = NoQueue
    /\ isCaptchaMining = FALSE
    /\ isTabMining = FALSE
    /\ ticker = FALSE
    /\ solveTimestamps = 0
    /\ reqs = <<>>
    /\ fetchLog = <<>>
    /\ op = OpOf("mount")
    /\ memOwner = ""
    /\ lsOwner = [k \in StorageKeys |-> IF localStorage[k] = <<>> THEN Null ELSE k[2]]
    /\ ledger = [base |-> stats.pendingSOL, sum |-> 0, total |-> stats.pendingSOL]
    /\ events = 0
    /\ status = Status(isCaptchaMining, isTabMining)
    /\ cooldownRef = FALSE
    /\ verifying = <<>>
    /\ cooldownTimers = <<>>
    /\ verifyCalls = 0
    /\ gameState = "IDLE"
    /\ scoreRef = 0
    /\ lastMilestoneRef = 0
    /\ sessionReward = 0
    /\ fired = <<>>

(***************************************************************************)
(* A render that commits the records ns and nh, followed by the save       *)
(* effects whose dependencies changed.  A queued account load is part of   *)
(* the same render, so both records change with it.                        *)
(***************************************************************************)
Render(ns, nh, statsChanged, historyChanged) ==
    LET s == statsChanged \/ queued.pending
        h == historyChanged \/ queued.pending
        ls1 == IF s THEN SaveStatsEffect(localStorage, payoutAddress, loadedAddressRef, ns)
               ELSE localStorage
        ls2 == IF h THEN SaveHistoryEffect(ls1, payoutAddress, loadedAddressRef, nh)
               ELSE ls1
        owner == IF queued.pending THEN queued.address ELSE memOwner
        written == SaveGuard(payoutAddress, loadedAddressRef)
    IN  /\ stats' = ns
        /\ history' = nh
        /\ queued' = NoQueue
        /\ localStorage' = ls2
        /\ memOwner' = owner
        /\ lsOwner' = [k \in StorageKeys |->
                IF written /\ ( (s /\ k = StatsKey(payoutAddress))
                              \/ (h /\ k = HistoryKey(payoutAddress)) )
                THEN owner ELSE lsOwner[k]]

\* The ledger an update starts from: a queued load opens a new one
CurLedger ==
    IF queued.pending
    THEN [base |-> queued.stats.pendingSOL, sum |-> 0,
          total |-> queued.stats.pendingSOL + SumCompleted(queued.history)]
    ELSE ledger

Credit(amount) ==
    /\ ledger' = [CurLedger EXCEPT !.sum = @ + amount, !.total = @ + amount]
    /\ events' = events + 1

(***************************************************************************)
(* The configured account changes (wallet effect, handleLogout or          *)
(* onConfigChange of App).  The commit of that render runs the load effect *)
(* and then the two save effects, which belong to the same render and so   *)
(* see its stats and history.                                              *)
(***************************************************************************)
\* What the load effect finds: no record under either key of the account
\* ("absent"), or the account whose records are in memory ("again")
LoadKind(a) ==
    IF a = "" THEN ""
    ELSE IF GetItem(localStorage, StatsKey(a)) = <<>>
            /\ GetItem(localStorage, HistoryKey(a)) = <<>> THEN "absent"
    ELSE IF memOwner = a THEN "again"
    ELSE ""

SetAccount(a) ==
    /\ ~Busy
    /\ ~queued.pending
    /\ a # payoutAddress
    /\ LET ref == LoadEffectRef(a, loadedAddressRef)
           ls1 == SaveStatsEffect(localStorage, a, ref, stats)
           ls2 == SaveHistoryEffect(ls1, a, ref, history)
       IN  /\ payoutAddress' = a
           /\ loadedAddressRef' = ref
           /\ queued' = IF a = "" THEN NoQueue
                         ELSE [pending |-> TRUE, address |-> a,
                               stats |-> LoadStats(localStorage, a),
                               history |-> LoadHistory(localStorage, a)]
           /\ localStorage' = ls2
           /\ lsOwner' = [k \in StorageKeys |->
                   IF SaveGuard(a, ref) /\ k \in {StatsKey(a), HistoryKey(a)}
                   THEN memOwner ELSE lsOwner[k]]
    /\ op' = [OpOf("setAccount") EXCEPT !.arg = LoadKind(a)]
    /\ UNCHANGED <<game, gate, status, stats, history, isCaptchaMining, isTabMining, ticker,
                   solveTimestamps, reqs, fetchLog, memOwner, ledger, events>>

\* The render that applies the queued setStats / setHistory of the load effect
FinishLoad ==
    /\ ~Busy
    /\ queued.pending
    /\ Render(queued.stats, queued.history, TRUE, TRUE)
    /\ ledger' = CurLedger
    /\ op' = [OpOf("load") EXCEPT !.arg = IF op.name = "setAccount" THEN op.arg ELSE ""]
    /\ UNCHANGED <<game, gate, status, payoutAddress, loadedAddressRef, isCaptchaMining, isTabMining,
                   ticker, solveTimestamps, reqs, fetchLog, events>>

(***************************************************************************)
(* The reward sources.                                                     *)
(***************************************************************************)
Tick(jitter) ==
    /\ ~Busy
    /\ ticker
    /\ Render(TickUpdate(CurStats, jitter), CurHistory, TRUE, FALSE)
    /\ Credit(TAB_MINING_REWARD)
    /\ op' = OpOf("tick")
    /\ UNCHANGED <<game, gate, status, payoutAddress, loadedAddressRef, isCaptchaMining, isTabMining,
                   ticker, solveTimestamps, reqs, fetchLog>>

\* kept is the number of earlier timestamps still inside the 10 s window
OnSolveSuccess(difficulty, kept) ==
    /\ ~Busy
    /\ kept \in 0..solveTimestamps
    /\ solveTimestamps' = kept + 1
    /\ Render(SolveUpdate(CurStats, difficulty, kept + 1, isTabMining), CurHistory,
              TRUE, FALSE)
    /\ Credit(SolveReward(difficulty))
    /\ op' = [OpOf("solve") EXCEPT !.arg = difficulty]
    /\ UNCHANGED <<game, gate, status, payoutAddress, loadedAddressRef, isCaptchaMining, isTabMining,
                   ticker, reqs, fetchLog>>

Milestone(distance) ==
    /\ ~Busy
    /\ LET reward == MilestoneReward(distance)
       IN  IF reward > 0
           THEN /\ Render(MilestoneUpdate(CurStats, reward), CurHistory, TRUE, FALSE)
                /\ Credit(reward)
           ELSE UNCHANGED <<stats, history, queued, localStorage, memOwner, lsOwner,
                            ledger, events>>
    /\ op' = [OpOf("milestone") EXCEPT !.id = distance]
    /\ UNCHANGED <<gate, status, payoutAddress, loadedAddressRef, isCaptchaMining, isTabMining,
                   ticker, solveTimestamps, reqs, fetchLog>>

\* onDistanceMilestone called by any caller of the hook
OnDistanceMilestone(distance) == Milestone(distance) /\ UNCHANGED game

AddPendingBalance(amount) ==
    /\ ~Busy
    /\ Render(AddBalanceUpdate(CurStats, amount), CurHistory, TRUE, FALSE)
    /\ Credit(amount)
    /\ op' = OpOf("addPendingBalance")
    /\ UNCHANGED <<game, gate, status, payoutAddress, loadedAddressRef, isCaptchaMining, isTabMining,
                   ticker, solveTimestamps, reqs, fetchLog>>

(***************************************************************************)
(* The two toggles and the ticker effect their render runs: the cleanup    *)
(* clears the interval, then the effect either starts a new one or, with   *)
(* both flags off, zeroes the display hash-rate.                           *)
(***************************************************************************)
(***************************************************************************)
(* The game: initGame, the effect on isMining, and the part of the frame   *)
(* loop that reports milestones.                                           *)
(***************************************************************************)
InitGame ==
    /\ scoreRef' = 0
    /\ lastMilestoneRef' = 0
    /\ sessionReward' = 0
    /\ gameState' = "PLAYING"
    /\ fired' = <<>>

\* The effect of CaptchaChallenge on its isMining prop
MiningEffect(isMining) ==
    IF isMining /\ gameState = "IDLE" THEN InitGame
    ELSE IF ~isMining /\ gameState # "IDLE"
         THEN gameState' = "IDLE"
              /\ UNCHANGED <<scoreRef, lastMilestoneRef, sessionReward, fired>>
    ELSE UNCHANGED game

\* What the frame adds to the session reward shown for a milestone it reports
Added(milestone) ==
    IF milestone = 100 THEN 810
    ELSE IF milestone = 200 THEN 1100
    ELSE IF milestone = 300 THEN 1200
    ELSE IF milestone = 400 THEN 1600
    ELSE IF milestone = 500 THEN 3200
    ELSE IF milestone > 500 THEN 1600
    ELSE 0

\* The milestone of a score: the distance in metres cut to a multiple of 100
MilestoneOf(score) == ((score \div 50) \div 100) * 100

\* Mutant: the last-fired milestone is not looked at
EmitsWheneverPast(milestone, last) == milestone > 0

\* Whether the frame reports the milestone
Emits(milestone, last) == milestone > 0 /\ milestone > last

\* Mutant: the toggle switches the flag on
ToggledOn(prev) == TRUE

\* The updater handed to setIsCaptchaMining / setIsTabMining
Toggled(prev) == ~prev

\* History of a toggle: the value its flag had before
FlagText(flag) == IF flag THEN "on" ELSE "off"

\* The setInterval calls of one run of the ticker effect; the effect runs, after
\* the cleanup of its last run, at every change of either flag (its dependencies)
IntervalsStarted(captcha, tab) == IF tab THEN 1 ELSE 0

\* Mutant: the interval is started when either flag is set
TickerLiveEither(captcha, tab) == captcha \/ tab

\* Whether the effect starts the interval (it returns before when tab is off)
TickerLive(captcha, tab) == tab

TickerEffect(captcha, tab) ==
    /\ ticker' = TickerLive(captcha, tab)
    /\ IF ~tab /\ ~captcha
       THEN Render(IdleHashRate(stats), history, TRUE, FALSE)
       ELSE UNCHANGED <<stats, history, queued, localStorage, memOwner, lsOwner>>

ToggleMining ==
    /\ ~Busy
    /\ ~queued.pending
    /\ isCaptchaMining' = Toggled(isCaptchaMining)
    /\ status' = Status(Toggled(isCaptchaMining), isTabMining)
    /\ TickerEffect(Toggled(isCaptchaMining), isTabMining)
    /\ MiningEffect(Toggled(isCaptchaMining))
    /\ op' = [OpOf("toggleMining") EXCEPT
                 !.arg = FlagText(isCaptchaMining),
                 !.id = IntervalsStarted(Toggled(isCaptchaMining), isTabMining)]
    /\ UNCHANGED <<gate, payoutAddress, loadedAddressRef, isTabMining, solveTimestamps,
                   reqs, fetchLog, ledger, events>>

ToggleTabMining ==
    /\ ~Busy
    /\ ~queued.pending
    /\ isTabMining' = Toggled(isTabMining)
    /\ status' = Status(isCaptchaMining, Toggled(isTabMining))
    /\ TickerEffect(isCaptchaMining, Toggled(isTabMining))
    /\ op' = [OpOf("toggleTabMining") EXCEPT
                 !.arg = FlagText(isTabMining),
                 !.id = IntervalsStarted(isCaptchaMining, Toggled(isTabMining))]
    /\ UNCHANGED <<game, gate, payoutAddress, loadedAddressRef, isCaptchaMining, solveTimestamps,
                   reqs, fetchLog, ledger, events>>

(***************************************************************************)
(* requestWithdrawal.  The handler runs in three steps: the precondition   *)
(* checks and setHistory(prepend); the fetch, at whose await the handler   *)
(* suspends and React commits the render; and the continuation after the   *)
(* payout call has been answered.                                          *)
(***************************************************************************)
\* Mutant: a balance of exactly the minimum is rejected
PreconditionInclusive(balance, address) ==
    IF balance <= MIN_WITHDRAWAL THEN ThresholdError
    ELSE IF address = "" THEN ConfigError
    ELSE ""

\* Mutant: the account key is checked before the balance
PreconditionSwapped(balance, address) ==
    IF address = "" THEN ConfigError
    ELSE IF balance < MIN_WITHDRAWAL THEN ThresholdError
    ELSE ""

\* "" when both preconditions hold, else the error returned
Precondition(balance, address) ==
    IF balance < MIN_WITHDRAWAL THEN ThresholdError
    ELSE IF address = "" THEN ConfigError
    ELSE ""

\* The JSON body of the POST /api/withdraw request
PayoutBody(address, amount) == [recipientAddress |-> address, amountSOL |-> amount]

\* Math.random().toString(36).substr(2, 9): an identifier no other record has
NewId == Len(reqs) + 1

RequestWithdrawal ==
    /\ ~Busy
    /\ ~queued.pending
    /\ LET error == Precondition(stats.pendingSOL, payoutAddress)
           amountToWithdraw == stats.pendingSOL
       IN  IF error # ""
           THEN /\ op' = [OpOf("withdraw.rejected") EXCEPT !.error = error]
                /\ UNCHANGED <<history, reqs>>
           ELSE /\ history' = <<PendingPayout(NewId, amountToWithdraw, payoutAddress)>>
                                  \o history
                /\ reqs' = Append(reqs, [id |-> NewId, amount |-> amountToWithdraw,
                                         address |-> payoutAddress, state |-> "created"])
                /\ op' = [OpOf("withdraw.pending") EXCEPT !.id = NewId]
    /\ UNCHANGED <<game, gate, status, payoutAddress, loadedAddressRef, stats, queued, localStorage,
                   isCaptchaMining, isTabMining, ticker, solveTimestamps, fetchLog,
                   memOwner, lsOwner, ledger, events>>

IssueFetch(i) ==
    /\ reqs[i].state = "created"
    /\ fetchLog' = Append(fetchLog, PayoutBody(reqs[i].address, reqs[i].amount))
    /\ reqs' = [reqs EXCEPT ![i].state = "inflight"]
    /\ Render(stats, history, FALSE, TRUE)
    /\ op' = [OpOf("withdraw.fetch") EXCEPT !.id = reqs[i].id]
    /\ UNCHANGED <<game, gate, status, payoutAddress, loadedAddressRef, isCaptchaMining, isTabMining,
                   ticker, solveTimestamps, ledger, events>>

Resolve(i, outcome) ==
    /\ ~Busy
    /\ reqs[i].state = "inflight"
    /\ LET resp == Response(outcome, reqs[i].id)
       IN  /\ Render(ResolvedStats(CurStats, resp),
                     ResolvedHistory(CurHistory, reqs[i].id, resp),
                     Succeeded(resp), TRUE)
           /\ ledger' = IF Succeeded(resp) THEN [CurLedger EXCEPT !.base = 0, !.sum = 0]
                        ELSE CurLedger
           /\ op' = [name |-> Settled(resp), id |-> reqs[i].id, arg |-> outcome,
                     success |-> Succeeded(resp), error |-> ResolvedError(resp),
                     txHash |-> IF Succeeded(resp) THEN resp.txHash ELSE ""]
    /\ reqs' = [reqs EXCEPT ![i].state = "done"]
    /\ fetchLog' = fetchLog \o Resent(Response(outcome, reqs[i].id),
                                       PayoutBody(reqs[i].address, reqs[i].amount))
    /\ UNCHANGED <<game, gate, status, payoutAddress, loadedAddressRef, isCaptchaMining, isTabMining,
                   ticker, solveTimestamps, events>>

(***************************************************************************)
(* verifyCaptcha.  The call checks the cooldown flag and, unless it is     *)
(* set, starts a 400 ms timer; the timer's callback compares the texts     *)
(* and, on a match, sets the flag and starts the 3000 ms timer that clears *)
(* it.  Timers of equal delay fire in the order they were started; a       *)
(* 3000 ms timer cannot fire before a 400 ms timer started earlier.        *)
(***************************************************************************)
VerifyCaptcha(solution, expected) ==
    /\ verifyCalls' = verifyCalls + 1
    /\ IF RateLimited(cooldownRef)
       THEN /\ op' = [OpOf("verify.rejected") EXCEPT !.id = verifyCalls + 1,
                                                     !.error = RateLimitError]
            /\ UNCHANGED verifying
       ELSE /\ op' = [OpOf("verify.started") EXCEPT !.id = verifyCalls + 1]
            /\ verifying' = Append(verifying, [id |-> verifyCalls + 1,
                                               solution |-> solution,
                                               expected |-> expected])
    /\ UNCHANGED <<game, cooldownRef, cooldownTimers, status, payoutAddress, loadedAddressRef,
                   stats, history, queued, localStorage, isCaptchaMining, isTabMining,
                   ticker, solveTimestamps, reqs, fetchLog, memOwner, lsOwner, ledger,
                   events>>

\* The callback of the 400 ms timer of the oldest call still waiting
VerifyTimeout ==
    /\ verifying # <<>>
    /\ LET v == Head(verifying)
           matched == Matches(v.solution, v.expected)
       IN  /\ cooldownRef' = CooldownAfter(matched, cooldownRef)
           /\ cooldownTimers' = IF matched
                                THEN Append(cooldownTimers,
                                            [of |-> v.id, after |-> verifyCalls])
                                ELSE cooldownTimers
           /\ op' = [OpOf("verify.resolved") EXCEPT
                        !.id = v.id, !.success = matched,
                        !.error = IF matched THEN "" ELSE InvalidError]
    /\ verifying' = Tail(verifying)
    /\ UNCHANGED <<game, verifyCalls, status, payoutAddress, loadedAddressRef, stats, history,
                   queued, localStorage, isCaptchaMining, isTabMining, ticker,
                   solveTimestamps, reqs, fetchLog, memOwner, lsOwner, ledger, events>>

\* The callback of the oldest pending 3000 ms timer
ClearCooldown ==
    /\ cooldownTimers # <<>>
    /\ \A j \in 1..Len(verifying) : verifying[j].id > Head(cooldownTimers).after
    /\ cooldownRef' = CooldownCleared
    /\ cooldownTimers' = Tail(cooldownTimers)
    /\ op' = [OpOf("cooldown.cleared") EXCEPT !.id = Head(cooldownTimers).of]
    /\ UNCHANGED <<game, verifying, verifyCalls, status, payoutAddress, loadedAddressRef, stats,
                   history, queued, localStorage, isCaptchaMining, isTabMining, ticker,
                   solveTimestamps, reqs, fetchLog, memOwner, lsOwner, ledger, events>>

(***************************************************************************)
(* The game's steps.  A Frame is a run of animation frames that adds inc   *)
(* to the score; the last of them makes the milestone check.               *)
(***************************************************************************)
\* jump() outside a game, or the RESTART GAME button
Jump ==
    /\ gameState \in {"IDLE", "GAME_OVER"}
    /\ InitGame
    /\ op' = OpOf("initGame")
    /\ UNCHANGED <<gate, status, payoutAddress, loadedAddressRef, stats, history, queued,
                   localStorage, isCaptchaMining, isTabMining, ticker, solveTimestamps,
                   reqs, fetchLog, memOwner, lsOwner, ledger, events>>

Crash ==
    /\ gameState = "PLAYING"
    /\ gameState' = "GAME_OVER"
    /\ op' = OpOf("gameOver")
    /\ UNCHANGED <<scoreRef, lastMilestoneRef, sessionReward, fired, gate, status, payoutAddress,
                   loadedAddressRef, stats, history, queued, localStorage,
                   isCaptchaMining, isTabMining, ticker, solveTimestamps, reqs,
                   fetchLog, memOwner, lsOwner, ledger, events>>

Frame(inc) ==
    /\ gameState = "PLAYING"
    /\ scoreRef' = scoreRef + inc
    /\ gameState' = gameState
    /\ LET milestone == MilestoneOf(scoreRef + inc)
       IN  IF Emits(milestone, lastMilestoneRef)
           THEN /\ Milestone(milestone)
                /\ lastMilestoneRef' = milestone
                /\ sessionReward' = sessionReward + Added(milestone)
                /\ fired' = Append(fired, milestone)
           ELSE /\ op' = OpOf("frame")
                /\ UNCHANGED <<lastMilestoneRef, sessionReward, fired, gate, status, payoutAddress,
                               loadedAddressRef, stats, history, queued, localStorage,
                               isCaptchaMining, isTabMining, ticker, solveTimestamps,
                               reqs, fetchLog, memOwner, lsOwner, ledger, events>>

\* The whole hook, with one input of each reward source
Steps == events + Len(reqs)

Next ==
    \/ \E a \in Accounts \cup {""} : SetAccount(a)
    \/ FinishLoad
    \/ Steps < MaxSteps /\ Tick(0)
    \/ Steps < MaxSteps /\ \E kept \in 0..MaxSteps : OnSolveSuccess("HARD", kept)
    \/ Steps < MaxSteps /\ OnDistanceMilestone(100)
    \/ Steps < MaxSteps /\ \E amount \in RedeemAmounts : AddPendingBalance(amount)
    \/ ToggleMining
    \/ ToggleTabMining
    \/ (Steps < MaxSteps \/ Precondition(stats.pendingSOL, payoutAddress) # "")
          /\ RequestWithdrawal
    \/ \E i \in 1..Len(reqs) : IssueFetch(i)
    \/ \E i \in 1..Len(reqs), outcome \in Outcomes : Resolve(i, outcome)

Spec == Init /\ [][Next]_vars

\* The reward sources alone, with every input, on the record of one session
RewardNext ==
    \/ events < MaxFold /\ \E jitter \in HashJitter : Tick(jitter)
    \/ events < MaxFold /\ \E d \in Difficulties, kept \in 0..MaxFold : OnSolveSuccess(d, kept)
    \/ events < MaxFold /\ \E distance \in Distances : OnDistanceMilestone(distance)
    \/ events < MaxFold /\ \E amount \in RedeemAmounts : AddPendingBalance(amount)
    \/ ToggleMining
    \/ ToggleTabMining

RewardSpec == Init /\ [][RewardNext]_vars

\* The verification gate beside the two toggles.  A started timer fires.
GateNext ==
    \/ verifyCalls < MaxVerify
          /\ \E solution \in Solutions, expected \in Expecteds :
                VerifyCaptcha(solution, expected)
    \/ VerifyTimeout
    \/ ClearCooldown
    \/ ToggleMining
    \/ ToggleTabMining

\* The two asynchronous operations with every answer of the payout service
ErrorsNext ==
    \/ \E a \in Accounts \cup {""} : SetAccount(a)
    \/ FinishLoad
    \/ (Len(reqs) < MaxSteps \/ Precondition(stats.pendingSOL, payoutAddress) # "")
          /\ RequestWithdrawal
    \/ \E i \in 1..Len(reqs) : IssueFetch(i)
    \/ \E i \in 1..Len(reqs), outcome \in AllOutcomes : Resolve(i, outcome)
    \/ verifyCalls < MaxSteps
          /\ \E solution \in Solutions, expected \in Expecteds :
                VerifyCaptcha(solution, expected)
    \/ VerifyTimeout
    \/ ClearCooldown

ErrorsSpec == Init /\ [][ErrorsNext]_vars

\* The game as the producer of milestones
GameNext ==
    \/ ToggleMining
    \/ Jump
    \/ Crash
    \/ (scoreRef < MaxScore /\ events < MaxFold) /\ \E inc \in FrameSteps : Frame(inc)

GameSpec == Init /\ [][GameNext]_vars

GateSpec ==
    Init /\ [][GateNext]_vars /\ WF_vars(VerifyTimeout) /\ WF_vars(ClearCooldown)

(***************************************************************************)
(* Shorthands of the properties.                                           *)
(***************************************************************************)
Terminal == {"completed", "failed"}

\* The step is a call of requestWithdrawal (its synchronous part)
WithdrawalCalled == op'.name \in {"withdraw.rejected", "withdraw.pending"}

\* The step is the continuation of request number op'.id after the payout call
WithdrawalResolved == op'.name = "withdraw.resolved"

\* The record of request i is the newest one of the history the patch is applied to
IsHead(h, i) == h # <<>> /\ h[1].id = reqs[i].id

StoredHistory(a) == LoadHistory(localStorage, a)

(***************************************************************************)
(* C1.  Guard correctness: when the configured account changes to B, B's   *)
(* stats and history keys are never written with the in-memory records of  *)
(* another account A, the save effects of the commit that runs the load    *)
(* effect included.  Stated as: the record stored under an account's key   *)
(* was never written from records loaded for another account.              *)
(***************************************************************************)
C1_GuardCorrectness ==
    \A b \in Accounts : \A k \in {StatsKey(b), HistoryKey(b)} :
        lsOwner[k] \notin Accounts \ {b}

(***************************************************************************)
(* C2.  Additivity and order-independence: whatever the order in which     *)
(* tick, solve and milestone updates were applied since the record was     *)
(* last loaded or reset, the pending balance is the balance it had then    *)
(* plus the sum of the reward amounts.                                     *)
(***************************************************************************)
C2_Additivity == stats.pendingSOL = ledger.base + ledger.sum

\* a tick, a hard solve and the 100 m milestone have been applied, in some order
C2_Witness ==
    /\ events = 3
    /\ ledger.sum = TAB_MINING_REWARD + SolveReward("HARD") + MilestoneReward(100)
    /\ stats.pendingSOL = ledger.sum
    /\ stats.uptime = TickUptime /\ stats.solves = 1

(***************************************************************************)
(* C3.  In every reachable state the secondary pending balance is the      *)
(* primary pending balance divided by 1.45, in the committed record and in *)
(* a record the load effect has queued.                                    *)
(***************************************************************************)
C3_FixedRate ==
    /\ stats.pendingXMR = XMROf(stats.pendingSOL)
    /\ queued.pending => queued.stats.pendingXMR = XMROf(queued.stats.pendingSOL)

\* account A's stored 0.03 SOL plus a redeemed 0.03 SOL
C3_Witness ==
    /\ op.name = "addPendingBalance"
    /\ stats.pendingSOL = 60000
    /\ stats.pendingXMR = 41379

(***************************************************************************)
(* C4.  Withdrawal success: when the payout call of a request for balance  *)
(* b answers with success and transaction reference T, the continuation    *)
(* returns success with T, leaves the pending balance at 0 in both         *)
(* denominations, and the request's record, the head of the history it     *)
(* patches, becomes completed with txHash T and amount b.                  *)
(***************************************************************************)
C4_WithdrawalSuccess ==
    [][ (WithdrawalResolved /\ Succeeded(Response(op'.arg, op'.id))) =>
          LET i == op'.id
              T == Response(op'.arg, op'.id).txHash
          IN  /\ op'.success /\ op'.txHash = T /\ op'.error = ""
              /\ stats'.pendingSOL = 0 /\ stats'.pendingXMR = 0
              /\ reqs[i].amount >= MIN_WITHDRAWAL /\ reqs[i].address # ""
              /\ IsHead(CurHistory, i) =>
                    history'[1] = [id |-> reqs[i].id, amountSOL |-> reqs[i].amount,
                                   status |-> "completed", txHash |-> T,
                                   address |-> reqs[i].address]
      ]_vars

C4_Witness ==
    /\ op.name = "withdraw.resolved" /\ op.success /\ op.txHash = "tx1"
    /\ history # <<>>
    /\ history[1] = [id |-> 1, amountSOL |-> 30000, status |-> "completed",
                     txHash |-> "tx1", address |-> "A"]
    /\ stats.pendingSOL = 0 /\ stats.pendingXMR = 0

(***************************************************************************)
(* C5.  Withdrawal failure: when the payout call answers with a            *)
(* non-success response or throws, the continuation returns success:false  *)
(* with an error text, leaves the statistics (the pending balance) as they *)
(* were, and the request's record, the head of the history it patches,     *)
(* becomes failed with its txHash still empty.                             *)
(***************************************************************************)
C5_WithdrawalFailure ==
    [][ (WithdrawalResolved /\ ~Succeeded(Response(op'.arg, op'.id))) =>
          LET i == op'.id
          IN  /\ ~op'.success /\ op'.txHash = "" /\ op'.error # ""
              /\ stats' = CurStats
              /\ IsHead(CurHistory, i) =>
                    history'[1] = [id |-> reqs[i].id, amountSOL |-> reqs[i].amount,
                                   status |-> "failed", txHash |-> "",
                                   address |-> reqs[i].address]
      ]_vars

\* the balance the failed request asked for is still there
C5_Witness ==
    /\ op.name = "withdraw.resolved" /\ ~op.success /\ op.arg = "throws"
    /\ history # <<>>
    /\ history[1].status = "failed" /\ history[1].txHash = ""
    /\ stats.pendingSOL = history[1].amountSOL
    /\ Precondition(stats.pendingSOL, payoutAddress) = ""

(***************************************************************************)
(* C6.  Below-minimum withdrawal: a call of requestWithdrawal with a       *)
(* pending balance below 0.03 returns the threshold error, issues no       *)
(* payout request and leaves history, statistics and storage unchanged; a  *)
(* balance of exactly 0.03 is not rejected by the threshold check.         *)
(***************************************************************************)
C6_BelowMinimum ==
    [][ WithdrawalCalled =>
          /\ stats.pendingSOL < MIN_WITHDRAWAL =>
                /\ op' = [OpOf("withdraw.rejected") EXCEPT !.error = ThresholdError]
                /\ UNCHANGED <<history, stats, queued, localStorage, reqs, fetchLog>>
          /\ stats.pendingSOL = MIN_WITHDRAWAL => op'.error # ThresholdError
      ]_vars

C6_Witness ==
    /\ op.name = "withdraw.rejected" /\ op.error = ThresholdError
    /\ payoutAddress # ""
    /\ stats.pendingSOL = TAB_MINING_REWARD
    /\ history = <<>> /\ fetchLog = <<>>

(***************************************************************************)
(* C7.  Precondition order: with a balance of at least 0.03 and no account *)
(* key requestWithdrawal returns the configuration error, creates no       *)
(* history record and issues no payout request; with the balance below     *)
(* 0.03 and no account key it returns the threshold error.                 *)
(***************************************************************************)
C7_PreconditionOrder ==
    [][ (WithdrawalCalled /\ payoutAddress = "") =>
          /\ stats.pendingSOL >= MIN_WITHDRAWAL =>
                /\ op' = [OpOf("withdraw.rejected") EXCEPT !.error = ConfigError]
                /\ UNCHANGED <<history, stats, queued, localStorage, reqs, fetchLog>>
          /\ stats.pendingSOL < MIN_WITHDRAWAL => op'.error = ThresholdError
      ]_vars

C7_Witness ==
    /\ op.name = "withdraw.rejected" /\ op.error = ConfigError
    /\ payoutAddress = ""
    /\ stats.pendingSOL >= MIN_WITHDRAWAL
    /\ reqs = <<>> /\ fetchLog = <<>>

(***************************************************************************)
(* C8.  Optimistic pending step: a call that passes the preconditions      *)
(* prepends a record with status pending, empty txHash, the configured     *)
(* account as address and the current pending balance as amount; that      *)
(* record is the head of history when the payout request is issued, the    *)
(* request carries the record's address and amount, and neither step       *)
(* changes the statistics.                                                 *)
(***************************************************************************)
C8_OptimisticPending ==
    [][ /\ (WithdrawalCalled /\ Precondition(stats.pendingSOL, payoutAddress) = "") =>
              /\ op'.name = "withdraw.pending"
              /\ history' = <<[id |-> op'.id, amountSOL |-> stats.pendingSOL,
                               status |-> "pending", txHash |-> "",
                               address |-> payoutAddress]>> \o history
              /\ fetchLog' = fetchLog
              /\ stats' = stats
        /\ op'.name = "withdraw.fetch" =>
              /\ history # <<>>
              /\ history[1] = [id |-> op'.id, amountSOL |-> stats.pendingSOL,
                               status |-> "pending", txHash |-> "",
                               address |-> payoutAddress]
              /\ fetchLog' = Append(fetchLog,
                                    [recipientAddress |-> history[1].address,
                                     amountSOL |-> history[1].amountSOL])
              /\ history' = history
              /\ stats' = stats
      ]_vars

\* the payout call is in flight: its record is pending and the balance is intact
C8_Witness ==
    /\ op.name = "withdraw.fetch"
    /\ history # <<>> /\ history[1].status = "pending" /\ history[1].id = op.id
    /\ fetchLog # <<>>
    /\ fetchLog[Len(fetchLog)] = [recipientAddress |-> payoutAddress,
                                  amountSOL |-> history[1].amountSOL]
    /\ stats.pendingSOL = history[1].amountSOL
    /\ stats.pendingSOL >= MIN_WITHDRAWAL

(***************************************************************************)
(* C9.  Withdrawal record lifecycle: a record is created pending; a        *)
(* pending record stays as it is or becomes completed (txHash populated,   *)
(* the other fields unchanged) or failed (only the status changed); a      *)
(* completed or failed record of the history is never changed by a later   *)
(* operation.                                                              *)
(***************************************************************************)
C9_RecordLifecycle ==
    [][ /\ op'.name = "withdraw.pending" => history'[1].status = "pending"
        /\ \A i \in 1..Len(history) : \A j \in 1..Len(history') :
              history[i].id = history'[j].id =>
                 IF history[i].status \in Terminal
                 THEN history'[j] = history[i]
                 ELSE \/ history'[j] = history[i]
                      \/ /\ history'[j].txHash # ""
                         /\ history'[j] = [history[i] EXCEPT !.status = "completed",
                                                             !.txHash = history'[j].txHash]
                      \/ history'[j] = [history[i] EXCEPT !.status = "failed"]
      ]_vars

(***************************************************************************)
(* C10.  No stuck pending record when the network answers: once the payout *)
(* call of a request has been answered, the request's record is completed  *)
(* or failed in the stored history of the account that requested it, and   *)
(* in the in-memory history whenever that holds this account's records.    *)
(***************************************************************************)
C10_NoStuckPending ==
    \A i \in 1..Len(reqs) :
        reqs[i].state = "done" =>
            /\ \E j \in 1..Len(StoredHistory(reqs[i].address)) :
                  /\ StoredHistory(reqs[i].address)[j].id = reqs[i].id
                  /\ StoredHistory(reqs[i].address)[j].status \in Terminal
            /\ (memOwner = reqs[i].address /\ ~queued.pending) =>
                  \E j \in 1..Len(history) :
                      /\ history[j].id = reqs[i].id
                      /\ history[j].status \in Terminal

\* The step is a call of verifyCaptcha
VerifyCalled ==
    /\ verifyCalls' = verifyCalls + 1
    /\ op'.name \in {"verify.rejected", "verify.started"}

\* The step is the comparison of the oldest waiting call
VerifyCompared == verifying # <<>> /\ op'.name = "verify.resolved"

(***************************************************************************)
(* C11.  Verification cooldown: a verification with a correct solution     *)
(* succeeds and starts the cooldown, and a call issued inside the cooldown *)
(* window of a verification that succeeded (its clearing timer has not     *)
(* fired yet) is rejected with the rate-limit error, whatever its solution.*)
(***************************************************************************)
C11_VerificationCooldown ==
    [][ /\ (VerifyCompared /\ Matches(Head(verifying).solution, Head(verifying).expected))
              => op'.success /\ cooldownRef'
        /\ (VerifyCalled /\ cooldownTimers # <<>>)
              => op'.name = "verify.rejected" /\ op'.error = RateLimitError
      ]_vars

(***************************************************************************)
(* C12.  A call of verifyCaptcha made while the cooldown flag is set       *)
(* returns the rate-limit error at once (no 400 ms timer is started, so no *)
(* comparison is made), and leaves the flag, its clearing timers, the      *)
(* statistics, the history and storage unchanged.                          *)
(***************************************************************************)
C12_RejectedWhileCooling ==
    [][ (VerifyCalled /\ cooldownRef) =>
          /\ op' = [OpOf("verify.rejected") EXCEPT !.id = verifyCalls + 1,
                                                   !.error = RateLimitError]
          /\ UNCHANGED <<cooldownRef, cooldownTimers, verifying, stats, history,
                         queued, localStorage, status>>
      ]_vars

C12_Witness ==
    /\ op.name = "verify.rejected" /\ op.error = RateLimitError /\ op.id = 2
    /\ cooldownRef
    /\ Len(cooldownTimers) = 1
    /\ verifying = <<>>

(***************************************************************************)
(* C13.  Only successful verifications engage the cooldown: a comparison   *)
(* whose texts differ after lower-casing returns the failure 'Invalid      *)
(* captcha' and leaves the cooldown flag and its timers as they were, and  *)
(* a call made while the flag is unset is never rejected; so consecutive   *)
(* failed attempts are each processed.                                     *)
(***************************************************************************)
C13_FailuresNotThrottled ==
    [][ /\ ( /\ VerifyCompared
             /\ ToLowerCase(Head(verifying).solution)
                  # ToLowerCase(Head(verifying).expected) )
              => /\ ~op'.success /\ op'.error = InvalidError
                 /\ UNCHANGED <<cooldownRef, cooldownTimers>>
        /\ (VerifyCalled /\ ~cooldownRef)
              => /\ op'.name = "verify.started"
                 /\ Len(verifying') = Len(verifying) + 1
      ]_vars

\* the second attempt has failed and no cooldown is running
C13_Witness ==
    /\ op.name = "verify.resolved" /\ ~op.success /\ op.error = InvalidError
    /\ op.id = 2
    /\ ~cooldownRef
    /\ cooldownTimers = <<>>

(***************************************************************************)
(* C14.  Cooldown release: a matching verification sets the flag and       *)
(* starts its clearing timer; a started timer is removed only by firing,   *)
(* which clears the flag; a set flag always has a timer pending and is     *)
(* eventually cleared.                                                     *)
(***************************************************************************)
C14_CooldownRelease ==
    /\ [][ /\ (VerifyCompared /\ op'.success)
                 => cooldownRef' /\ Len(cooldownTimers') = Len(cooldownTimers) + 1
           /\ Len(cooldownTimers') < Len(cooldownTimers)
                 => /\ op'.name = "cooldown.cleared"
                    /\ cooldownTimers' = Tail(cooldownTimers)
                    /\ ~cooldownRef'
         ]_vars
    /\ [](cooldownRef => cooldownTimers # <<>>)
    /\ (cooldownRef ~> ~cooldownRef)

\* the cooldown of the first verification has been released
C14_Witness ==
    /\ op.name = "cooldown.cleared" /\ op.id = 1
    /\ ~cooldownRef
    /\ cooldownTimers = <<>>

\* The step is a call of onDistanceMilestone(op'.id)
MilestoneReported == op'.name = "milestone"

(***************************************************************************)
(* C15.  Milestone extrapolation: every distance above 500 that is an      *)
(* exact multiple of 100 credits the same amount, the one credited at 600; *)
(* a distance that is not a multiple of 100 credits nothing and leaves the *)
(* records unchanged.                                                      *)
(***************************************************************************)
C15_FlatExtrapolation ==
    [][ MilestoneReported =>
          /\ (op'.id > 500 /\ op'.id % 100 = 0)
                => stats'.pendingSOL - CurStats.pendingSOL = MilestoneReward(600)
          /\ op'.id % 100 # 0
                => UNCHANGED <<stats, history, queued, localStorage>>
      ]_vars

(***************************************************************************)
(* C16.  Milestone reward table: the amount a milestone adds to the        *)
(* pending balance is the amount of the rewards table shown to the player: *)
(* 0.00081 at 100, 0.0011 at 200, 0.0012 at 300, 0.0016 at 400, 0.0032 at  *)
(* 500 and 0.0016 at every further multiple of 100.                        *)
(***************************************************************************)
C16_DocumentedTable ==
    [][ (MilestoneReported /\ op'.id > 0 /\ op'.id % 100 = 0) =>
          stats'.pendingSOL - CurStats.pendingSOL = DocumentedReward(op'.id)
      ]_vars

(***************************************************************************)
(* C20.  In every reachable state the mining status is the function of the *)
(* two activity flags: both set DUAL_MINING, only the active flag MINING,  *)
(* only the passive flag TAB_MINING, neither IDLE.                         *)
(***************************************************************************)
C20_StatusFunction ==
    status = CASE isCaptchaMining /\ isTabMining -> "DUAL_MINING"
               [] isCaptchaMining /\ ~isTabMining -> "MINING"
               [] ~isCaptchaMining /\ isTabMining -> "TAB_MINING"
               [] OTHER -> "IDLE"

\* both flags set, with an account loaded and a passive reward credited
C20_Witness ==
    /\ status = "DUAL_MINING"
    /\ payoutAddress = "A"
    /\ op.name = "tick"
    /\ stats.pendingSOL = 30000 + TAB_MINING_REWARD

\* The records stored under the keys of account a are the records in memory
StoredIsMemory(a) ==
    /\ localStorage[StatsKey(a)] = <<Stringify(stats)>>
    /\ localStorage[HistoryKey(a)] = <<Stringify(history)>>

(***************************************************************************)
(* C17.  Idempotence of account load: when the records in memory are the   *)
(* ones a load of account a gave (they are a's, equal the stored ones,     *)
(* hash-rate and uptime 0), selecting a again hands the same records to    *)
(* setStats and setHistory, the render of that load leaves statistics and  *)
(* history as they were, and neither step changes storage.                 *)
(***************************************************************************)
C17_LoadIdempotent ==
    [][ /\ ( /\ op'.name = "setAccount" /\ payoutAddress' # ""
             /\ memOwner = payoutAddress'
             /\ StoredIsMemory(payoutAddress')
             /\ stats.hashRate = 0 /\ stats.uptime = 0 )
              => /\ queued'.pending
                 /\ queued'.stats = stats /\ queued'.history = history
                 /\ localStorage' = localStorage
        /\ ( /\ op'.name = "load"
             /\ queued.address = memOwner
             /\ queued.stats = stats /\ queued.history = history
             /\ StoredIsMemory(queued.address) )
              => /\ stats' = stats /\ history' = history
                 /\ localStorage' = localStorage
      ]_vars

\* account A loaded a second time: a withdrawal of the first session is in the
\* history, and memory equals storage
C17_Witness ==
    /\ op.name = "load" /\ op.arg = "again"
    /\ payoutAddress = "A" /\ memOwner = "A"
    /\ history # <<>>
    /\ StoredIsMemory("A")

(***************************************************************************)
(* C18.  Account selection with no stored records: selecting an account    *)
(* whose two keys are absent hands all-zero statistics and an empty        *)
(* history to setStats and setHistory, whatever the records in memory are, *)
(* and the render of a load installs exactly the records handed over.      *)
(***************************************************************************)
C18_FreshAccount ==
    [][ /\ ( /\ op'.name = "setAccount" /\ payoutAddress' # ""
             /\ localStorage[StatsKey(payoutAddress')] = <<>>
             /\ localStorage[HistoryKey(payoutAddress')] = <<>> )
              => queued' = [pending |-> TRUE, address |-> payoutAddress',
                            stats |-> ZeroStats, history |-> <<>>]
        /\ op'.name = "load"
              => stats' = queued.stats /\ history' = queued.history
      ]_vars

\* account B selected with the un-suffixed record and a passive reward in memory
C18_Witness ==
    /\ op.name = "load" /\ op.arg = "absent"
    /\ payoutAddress = "B"
    /\ stats = ZeroStats /\ history = <<>>
    /\ events = 1
    /\ localStorage[StatsKey("")] # <<>>
    /\ localStorage[StatsKey("A")] = <<Stringify(PriorStats)>>

(***************************************************************************)
(* C19.  Persistence is suspended while no account is selected: a step     *)
(* that ends with the account key empty (a tick, solve, milestone, toggle  *)
(* or withdrawal attempt while logged out, or the logout itself) leaves    *)
(* storage, the un-suffixed keys included, as it was.                      *)
(***************************************************************************)
C19_NoAccountNoWrite ==
    [][ payoutAddress' = "" => localStorage' = localStorage ]_vars

\* a passive tick while logged out, after account A had been loaded
C19_Witness ==
    /\ op.name = "tick"
    /\ payoutAddress = "" /\ memOwner = "A"
    /\ stats.pendingSOL = 30000 + TAB_MINING_REWARD
    /\ LoadStats(localStorage, "A").pendingSOL = 30000

(***************************************************************************)
(* C21.  The two toggles are independent and each is its own inverse: a    *)
(* toggle flips its own flag and leaves the other flag as it is, so the    *)
(* same toggle applied twice in a row gives back the flag it started from. *)
(***************************************************************************)
C21_ToggleInvolution ==
    [][ /\ op'.name = "toggleMining"
              => /\ isCaptchaMining' = ~isCaptchaMining
                 /\ isTabMining' = isTabMining
                 /\ op.name = "toggleMining" => isCaptchaMining' = (op.arg = "on")
        /\ op'.name = "toggleTabMining"
              => /\ isTabMining' = ~isTabMining
                 /\ isCaptchaMining' = isCaptchaMining
                 /\ op.name = "toggleTabMining" => isTabMining' = (op.arg = "on")
      ]_vars

\* the active flag was on and has been toggled off, the passive flag is still on
C21_Witness ==
    /\ op.name = "toggleMining" /\ op.arg = "on"
    /\ ~isCaptchaMining
    /\ isTabMining

(***************************************************************************)
(* C21 as stated.  The toggles are idempotent: the same toggle applied a   *)
(* second time in a row leaves the flags as the first application left     *)
(* them.                                                                   *)
(***************************************************************************)
C21_ToggleIdempotent ==
    [][ /\ (op.name = "toggleMining" /\ op'.name = "toggleMining")
              => isCaptchaMining' = isCaptchaMining
        /\ (op.name = "toggleTabMining" /\ op'.name = "toggleTabMining")
              => isTabMining' = isTabMining
      ]_vars

\* The results requestWithdrawal and verifyCaptcha hand to their caller
Results == {"withdraw.rejected", "withdraw.resolved", "verify.rejected", "verify.resolved"}

(***************************************************************************)
(* C22.  Errors are values: whatever the payout service answers (success,  *)
(* success:false, an HTTP error status, a body that is not JSON, a fetch   *)
(* that throws) the promise of requestWithdrawal resolves; every result of *)
(* requestWithdrawal and verifyCaptcha is either success (with the txHash  *)
(* for a withdrawal) and no error, or failure with an error text.          *)
(***************************************************************************)
C22_ErrorsAreValues ==
    [][ /\ \A i \in 1..Len(reqs) :
              (reqs[i].state = "inflight" /\ reqs'[i].state = "done")
                 => op'.name = "withdraw.resolved"
        /\ op'.name # "withdraw.threw"
        /\ op'.name \in Results =>
              IF op'.success
              THEN /\ op'.error = ""
                   /\ op'.name = "withdraw.resolved" => op'.txHash # ""
              ELSE op'.error # "" /\ op'.txHash = ""
      ]_vars

\* a body that is not JSON has been answered with the network error, after a
\* verification had succeeded
C22_Witness ==
    /\ op.name = "withdraw.resolved" /\ op.arg = "badJson"
    /\ ~op.success /\ op.error = NetworkError
    /\ cooldownTimers # <<>>

\* The operations other than the tick that change balance or uptime
NonTickSources == {"solve", "milestone", "addPendingBalance", "withdraw.resolved", "load"}

(***************************************************************************)
(* C23.  Passive ticks happen only while the passive flag is set: the      *)
(* interval is live exactly when the flag is set, a tick update is applied *)
(* only then, and with the flag off the pending balance and the uptime     *)
(* change only through a solve, a milestone, a redeemed amount, a resolved *)
(* withdrawal or an account load.                                          *)
(***************************************************************************)
C23_TicksOnlyWhilePassive ==
    [][ /\ ticker' = isTabMining'
        /\ op'.name = "tick" => isTabMining /\ isTabMining'
        /\ ( /\ ~isTabMining
             /\ \/ stats'.pendingSOL # stats.pendingSOL
                \/ stats'.uptime # stats.uptime )
              => op'.name \in NonTickSources
      ]_vars

\* a tick was applied, the passive flag was turned off, then a solve was credited
C23_Witness ==
    /\ op.name = "solve"
    /\ ~isTabMining /\ ~ticker
    /\ stats.uptime = TickUptime
    /\ stats.solves = 1

(***************************************************************************)
(* C24.  At most one reward per milestone per game session: the game calls *)
(* onMilestone only with positive multiples of 100 greater than the last   *)
(* one it fired, so the milestones fired since initGame are strictly       *)
(* increasing and each is credited once; the last-fired milestone goes     *)
(* down only in initGame, which sets it to 0 with the score.               *)
(***************************************************************************)
C24_OncePerSession ==
    /\ [][ /\ MilestoneReported
                 => /\ op'.id > 0 /\ op'.id % 100 = 0
                    /\ op'.id > lastMilestoneRef
                    /\ lastMilestoneRef' = op'.id
                    /\ events' = events + 1
                    /\ stats'.pendingSOL = CurStats.pendingSOL + MilestoneReward(op'.id)
           /\ lastMilestoneRef' < lastMilestoneRef
                 => /\ op'.name \in {"initGame", "toggleMining"}
                    /\ lastMilestoneRef' = 0 /\ scoreRef' = 0
                    /\ gameState' = "PLAYING"
         ]_vars
    /\ [](\A i \in 1..Len(fired) : \A j \in 1..Len(fired) : i < j => fired[i] < fired[j])

\* 100 m and 200 m were credited in one session, and 100 m again in the next
C24_Witness ==
    /\ op.name = "milestone" /\ op.id = 100
    /\ fired = <<100>>
    /\ events = 3
    /\ ledger.sum = 2 * MilestoneReward(100) + MilestoneReward(200)

(***************************************************************************)
(* C25.  Conservation of earned balance: when no withdrawal is in flight   *)
(* and the records in memory are those of the configured account, what     *)
(* these records have earned (the balance and the completed withdrawals    *)
(* they were loaded with, plus every reward credited since) equals the     *)
(* pending balance plus the amounts of the completed withdrawal records.   *)
(* Stated for sessions with a single withdrawal request, of that account.  *)
(***************************************************************************)
C25_Conservation ==
    ( /\ Len(reqs) = 1
      /\ reqs[1].state = "done"
      /\ payoutAddress = reqs[1].address
      /\ memOwner = reqs[1].address
      /\ ~queued.pending )
        => ledger.total = stats.pendingSOL + SumCompleted(history)

(***************************************************************************)
(* C26.  No double payout: the amounts of the completed withdrawal records *)
(* of an account never add up to more than its records have earned, also   *)
(* when requestWithdrawal is called again while an earlier call is still   *)
(* in flight.                                                              *)
(***************************************************************************)
C26_NoDoublePayout ==
    ( /\ \A i \in 1..Len(reqs) : reqs[i].address = memOwner
      /\ payoutAddress = memOwner
      /\ ~queued.pending )
        => SumCompleted(history) <= ledger.total

\* The account whose records an updater queued now is applied to
CurOwner == IF queued.pending THEN queued.address ELSE memOwner

(***************************************************************************)
(* C27.  Account isolation of an in-flight withdrawal: when the payout     *)
(* call of a request of account A is answered while the records in memory  *)
(* are those of another account B, the continuation leaves B's statistics  *)
(* and B's history as they are.                                            *)
(***************************************************************************)
C27_InFlightIsolation ==
    [][ ( /\ WithdrawalResolved
          /\ CurOwner \in Accounts
          /\ CurOwner # reqs[op'.id].address )
           => /\ stats' = CurStats
              /\ history' = CurHistory
      ]_vars

(***************************************************************************)
(* C28.  At most one verification succeeds per cooldown period: a          *)
(* comparison succeeds only while the cooldown flag is clear (of two calls *)
(* inside their processing delay together, the second to be compared does  *)
(* not succeed), and a clearing timer clears the flag only when no later   *)
(* success's timer is still pending (the flag stays set for the full       *)
(* duration counted from the last success).                                *)
(***************************************************************************)
C28_OneSuccessPerCooldown ==
    [][ /\ (VerifyCompared /\ op'.success) => ~cooldownRef
        /\ (op'.name = "cooldown.cleared") => Len(cooldownTimers) = 1
      ]_vars

(***************************************************************************)
(* C29.  History is append-only except for the own-status patch: a call of *)
(* requestWithdrawal that passes its checks puts its new pending record in *)
(* front of the existing records, which keep their content and order, and  *)
(* the patch made when a payout call is answered keeps the length and the  *)
(* order of the history, changes at most the status and the transaction    *)
(* hash of the record with the request's identifier, and leaves every      *)
(* other record, pending ones included, as it was.                         *)
(***************************************************************************)
C29_AppendOnlyHistory ==
    [][ /\ (op'.name = "withdraw.pending") =>
              /\ Len(history') = Len(CurHistory) + 1
              /\ history'[1] = PendingPayout(op'.id, stats.pendingSOL, payoutAddress)
              /\ Tail(history') = CurHistory
              /\ \A j \in 1..Len(CurHistory) : CurHistory[j].id # op'.id
        /\ WithdrawalResolved =>
              /\ Len(history') = Len(CurHistory)
              /\ \A j \in 1..Len(CurHistory) :
                    IF CurHistory[j].id = op'.id
                    THEN history'[j] \in
                           { [CurHistory[j] EXCEPT !.status = "failed"],
                             [CurHistory[j] EXCEPT !.status = "completed",
                                                   !.txHash = op'.txHash] }
                    ELSE history'[j] = CurHistory[j]
      ]_vars

C29_Witness ==
    /\ op.name = "withdraw.resolved"
    /\ Len(history) = 2
    /\ \E j, k \in 1..2 :
          /\ history[j].id = op.id
          /\ history[j].status \in Terminal
          /\ history[k].id # op.id
          /\ history[k].status = "pending"

(***************************************************************************)
(* C30.  Storage mirrors memory for the loaded account: whenever an        *)
(* account is configured and is the last loaded one, and no update of the  *)
(* statistics or the history is waiting for its render (the save effects   *)
(* of every change have run), the records stored under the account's two   *)
(* keys are the statistics and the history in memory.                      *)
(***************************************************************************)
C30_StorageMirrorsMemory ==
    ( /\ payoutAddress \in Accounts
      /\ loadedAddressRef = payoutAddress
      /\ ~queued.pending
      /\ ~Busy )
        => StoredIsMemory(payoutAddress)

C30_Witness ==
    /\ payoutAddress \in Accounts
    /\ loadedAddressRef = payoutAddress
    /\ ~queued.pending
    /\ ~Busy
    /\ op.name = "withdraw.resolved"
    /\ op.success
    /\ stats.pendingSOL = 0
    /\ Len(history) > 0
    /\ StoredIsMemory(payoutAddress)

\* The requests whose payout call has been issued
Issued == {i \in 1..Len(reqs) : reqs[i].state # "created"}

(***************************************************************************)
(* C31.  No automatic retry: every call of requestWithdrawal that passed   *)
(* its checks has posted exactly one payout request, carrying its own      *)
(* address and amount, whatever the answer was; the step in which a call   *)
(* is answered posts nothing, and a call that is rejected posts nothing.   *)
(***************************************************************************)
C31_NoAutomaticRetry ==
    /\ [](/\ Len(fetchLog) = Cardinality(Issued)
          /\ \A i \in 1..Len(fetchLog) :
                fetchLog[i] = [recipientAddress |-> reqs[i].address,
                               amountSOL |-> reqs[i].amount])
    /\ [][ (WithdrawalResolved \/ op'.name = "withdraw.rejected")
              => fetchLog' = fetchLog ]_vars

C31_Witness ==
    /\ Len(reqs) = 2
    /\ \A i \in 1..2 : reqs[i].state = "done"
    /\ op.name = "withdraw.resolved"
    /\ ~op.success
    /\ \E j \in 1..Len(history) : history[j].status = "failed"
    /\ Len(fetchLog) = 2

(***************************************************************************)
(* C32.  Error message source: a payout answered without success returns   *)
(* the error text of the answer, or 'Withdrawal failed' when the answer    *)
(* has none; a call that throws, or an answer whose body cannot be parsed, *)
(* returns the network-error text; in both cases the request's record is   *)
(* patched to failed and the statistics stay as they are.                  *)
(***************************************************************************)
C32_ErrorMessageSource ==
    [][ (WithdrawalResolved /\ ~op'.success) =>
          /\ op'.arg = "refused" => op'.error = ServiceText
          /\ op'.arg = "httpError" => op'.error = FallbackError
          /\ op'.arg \in {"throws", "badJson"} => op'.error = NetworkError
          /\ op'.txHash = ""
          /\ stats' = CurStats
          /\ history' = PatchFailed(CurHistory, op'.id)
      ]_vars

C32_Witness ==
    /\ op.name = "withdraw.resolved"
    /\ op.arg = "refused"
    /\ op.error = ServiceText
    /\ Len(reqs) = 2
    /\ reqs[1].state = "done"
    /\ Len(history) = 2
    /\ history[1].status = "pending"
    /\ history[2].status = "failed"
    /\ stats.pendingSOL = reqs[1].amount

\* The step is a tick of the passive ticker
Ticked == op'.name = "tick" /\ events' = events + 1

(***************************************************************************)
(* C33.  Tick update: each passive tick adds 0.000012 to the pending       *)
(* balance, 1.5 s to the uptime and 15 to totalHashes, puts the hash-rate  *)
(* into the band 450..500 when it is at or below 400 and leaves it as it   *)
(* is when above 400, and leaves solves, acceptedShares and the history    *)
(* unchanged.                                                              *)
(***************************************************************************)
C33_TickUpdate ==
    [][ Ticked =>
          /\ stats'.pendingSOL = CurStats.pendingSOL + 12
          /\ stats'.uptime = CurStats.uptime + 3
          /\ stats'.totalHashes = CurStats.totalHashes + 15
          /\ CurStats.hashRate > 400 => stats'.hashRate = CurStats.hashRate
          /\ CurStats.hashRate <= 400 => stats'.hashRate \in 450..499
          /\ stats'.solves = CurStats.solves
          /\ stats'.acceptedShares = CurStats.acceptedShares
          /\ history' = CurHistory
      ]_vars

\* a tick after a solve made while the ticker runs (hash-rate 550), and a
\* first tick before it (from hash-rate 0 into the band)
C33_Witness ==
    /\ op.name = "tick"
    /\ stats.hashRate = 550
    /\ stats.uptime = 2 * TickUptime
    /\ stats.solves = 1
    /\ stats.pendingSOL = 2 * TAB_MINING_REWARD + SolveReward("EASY")

\* The step is a reported solve
Solved == op'.name = "solve" /\ events' = events + 1

(***************************************************************************)
(* C34.  Solve update: each reported solve adds the reward of its tier     *)
(* (0.002 easy, 0.005 medium, 0.012 hard, 0.005 for a tier the table does  *)
(* not know) to the pending balance, adds 1 to solves and acceptedShares   *)
(* and 100 to totalHashes, and leaves the uptime and the history           *)
(* unchanged.                                                              *)
(***************************************************************************)
C34_SolveUpdate ==
    [][ Solved =>
          /\ op'.arg = "EASY" => stats'.pendingSOL = CurStats.pendingSOL + 2000
          /\ op'.arg = "MEDIUM" => stats'.pendingSOL = CurStats.pendingSOL + 5000
          /\ op'.arg = "HARD" => stats'.pendingSOL = CurStats.pendingSOL + 12000
          /\ op'.arg \notin {"EASY", "MEDIUM", "HARD"} =>
                stats'.pendingSOL = CurStats.pendingSOL + 5000
          /\ stats'.solves = CurStats.solves + 1
          /\ stats'.acceptedShares = CurStats.acceptedShares + 1
          /\ stats'.totalHashes = CurStats.totalHashes + 100
          /\ stats'.uptime = CurStats.uptime
          /\ history' = CurHistory
      ]_vars

\* a solve of an unknown tier after a tick and an easy solve
C34_Witness ==
    /\ op.name = "solve"
    /\ op.arg = "OTHER"
    /\ stats.solves = 2
    /\ stats.acceptedShares = 2
    /\ stats.uptime = TickUptime
    /\ stats.pendingSOL = 2000 + 5000 + TAB_MINING_REWARD

(***************************************************************************)
(* C35.  Monotonic counters: while the records in memory are those of one  *)
(* account, before and after a step, totalHashes, acceptedShares, solves   *)
(* and uptime do not decrease, whether the step is a tick, a solve, a      *)
(* milestone, a withdrawal or a load of that account again (of the record *)
(* that was saved from memory), and the uptime increases only in a tick.   *)
(***************************************************************************)
C35_MonotonicCounters ==
    [][ ( /\ memOwner \in Accounts
          /\ memOwner' = memOwner
          /\ payoutAddress = memOwner
          /\ payoutAddress' = memOwner
          /\ queued.pending =>
                [queued.stats EXCEPT !.uptime = stats.uptime,
                                     !.hashRate = stats.hashRate] = stats )
          => /\ stats'.totalHashes >= stats.totalHashes
             /\ stats'.acceptedShares >= stats.acceptedShares
             /\ stats'.solves >= stats.solves
             /\ stats'.uptime >= stats.uptime
             /\ stats'.uptime > stats.uptime => op'.name = "tick"
      ]_vars

(***************************************************************************)
(* C36.  Displayed reward equals credited reward: the amount the game adds *)
(* to the session reward for a milestone it reports is the amount          *)
(* onDistanceMilestone adds to the pending balance for it.                 *)
(***************************************************************************)
C36_DisplayedEqualsCredited ==
    [][ (op'.name = "milestone" /\ fired' # fired) =>
            sessionReward' - sessionReward
                = stats'.pendingSOL - CurStats.pendingSOL
      ]_vars

(***************************************************************************)
(* C37.  The game runs only while active mining is on: whenever the game   *)
(* is in state PLAYING the active flag is set, that is, the status is      *)
(* MINING or DUAL_MINING.                                                  *)
(***************************************************************************)
C37_PlayingOnlyWhileActive ==
    gameState = "PLAYING" =>
        /\ isCaptchaMining
        /\ status \in {"MINING", "DUAL_MINING"}

(***************************************************************************)
(* C38.  The passive ticker is unaffected by the active flag: while the    *)
(* passive flag stays set, a toggle of the active flag leaves the interval *)
(* of the ticker running and starts no new one (the timer is neither       *)
(* cancelled nor restarted), so the ticks keep the period counted from     *)
(* when the passive flag was set.                                          *)
(***************************************************************************)
C38_TickerKeepsInterval ==
    [][ (op'.name = "toggleMining" /\ isTabMining /\ isTabMining')
            => /\ ticker /\ ticker'
               /\ op'.id = 0
      ]_vars

====
